---- MODULE Spec2Model ----
(***************************************************************************)
(* Model of the two operational scripts of glassy-dash:                    *)
(*   deploy_artifact.py  - build / save / ship / remote-run pipeline       *)
(*   server/cleanup.py   - purge of the notes and note_collaborators tables*)
(* The scripts are independent programs; Spec is the deployment driver,    *)
(* SpecCleanup the purge script.                                           *)
(***************************************************************************)
EXTENDS Integers, Sequences, FiniteSets, TLC

(* ---------------- bounds ---------------- *)
\* exit statuses of external processes range over 0..MaxExit
MaxExit == 3
\* row ids that may be present in a table before the purge
MaxRows == 2

VARIABLES
  \* deploy_artifact.py
  dockerfile,   \* os.path.exists("Dockerfile") in the working directory
  pc,           \* position of the interpreter in deploy_artifact.py
  step,         \* the [k/4] step the interpreter is in (0 before build_local)
  ret,          \* return value of the stage function that last returned
  invoked,      \* invoked[k]: number of run_command calls made for step k
  events,       \* sequence of <<"invoke", k>> / <<"exit", k>> of the commands
  status,       \* exit status of every external process (-1: has not exited)
  out,          \* what was printed, in order (stdout and the traceback)
  exitCode,     \* exit code of the python process (-1: still running)
  failed,       \* step whose action signalled a failure (0: none)
  signal,       \* how it signalled: "none", "nonzero", "raise"
  \* server/cleanup.py
  cpc,          \* position of the interpreter in cleanup.py
  dbNotes,      \* committed rows of table notes
  dbCollabs,    \* committed rows of table note_collaborators
  txNotes,      \* rows of notes as seen inside the connection's transaction
  txCollabs,    \* rows of note_collaborators inside the transaction
  inTx,         \* the connection has an open (uncommitted) transaction
  deleted,      \* <<deleted_notes, deleted_collabs>> (rowcount), -1 unset
  commits,      \* number of conn.commit() calls issued
  committed,    \* a conn.commit() has taken effect
  db0,          \* <<notes, note_collaborators>> as committed when the script starts
  cout          \* what cleanup.py printed

dvars == <<dockerfile, pc, step, ret, invoked, events, status, out, exitCode,
           failed, signal>>
cvars == <<cpc, dbNotes, dbCollabs, db0, txNotes, txCollabs, inTx, deleted,
           commits, committed, cout>>
vars == <<dvars, cvars>>

Steps == 1..4
Procs == {"docker build", "docker save", "gzip", "scp", "ssh"}
ExitStatus == 0..MaxExit
Rows == 1..MaxRows

(* ======================= deploy_artifact.py ======================= *)

\* [k/4] banner printed ahead of each command
Banner(k) == CASE k = 1 -> "[1/4] Building"
               [] k = 2 -> "[2/4] Saving"
               [] k = 3 -> "[3/4] Shipping"
               [] k = 4 -> "[4/4] Running on VM"

\* the stage function that step k belongs to
StageOf(k) == CASE k \in {1, 2} -> "build_local"
                [] k = 3 -> "ship_artifact"
                [] k = 4 -> "run_remote"

\* exit status of `sh -c "docker save IMG | gzip > ARTIFACT"`: a POSIX shell
\* without pipefail reports the status of the last command of the pipeline
ShellStatus(save, gz) == gz

\* variant: the return code is not checked (subprocess.call in place of check_call)
check_call_never_raises(rc) == FALSE

\* subprocess.check_call raises CalledProcessError iff the return code is non-zero
check_call_raises(rc) == rc # 0

\* variant: the `not` of the guard is missing
DockerfileGuard_inverted(exists) == exists

\* os.path.exists("Dockerfile") guard of __main__
DockerfileGuard(exists) == ~exists

\* exit code given to sys.exit by the guard
GuardExitCode == 1

\* variant: run_remote returns False after its command succeeded
Continue_inverted(k) == CASE k = 1 -> <<"call", 2, "none">>
                          [] k = 2 -> <<"size", 2, "none">>
                          [] k = 3 -> <<"call", 4, "none">>
                          [] k = 4 -> <<"report", 4, "run_remote:False">>

\* where the interpreter goes when run_command returned True in step k
\* (<<pc, step, ret>>)
Continue(k) == CASE k = 1 -> <<"call", 2, "none">>
                 [] k = 2 -> <<"size", 2, "none">>
                 [] k = 3 -> <<"call", 4, "none">>
                 [] k = 4 -> <<"report", 4, "run_remote:True">>

\* variant: the stage function drops the False of run_command and goes on
ReturnFalse_ignored(k) == Continue(k)

\* variant: the command that failed is run a second time before giving up
ReturnFalse_retry(k) == IF invoked[k] < 2 THEN <<"call", k, "none">>
                        ELSE <<"report", k, StageOf(k) \o ":False">>

\* where the interpreter goes when run_command returned False in step k:
\* the stage function returns False to __main__
ReturnFalse(k) == <<"report", k, StageOf(k) \o ":False">>

\* variant: the else branch of `if ship_artifact()` is missing
FinalMessage_noelse(r) == CASE r = "run_remote:True" -> <<"Deployment to PROD Complete", "Check availability">>
                            [] r = "run_remote:False" -> <<"Remote Run Failed">>
                            [] r = "ship_artifact:False" -> << >>
                            [] r = "build_local:False" -> <<"Build Failed">>

\* the if/else cascade of __main__ on the stage functions' return values
FinalMessage(r) == CASE r = "run_remote:True" -> <<"Deployment to PROD Complete", "Check availability">>
                     [] r = "run_remote:False" -> <<"Remote Run Failed">>
                     [] r = "ship_artifact:False" -> <<"Shipping Failed">>
                     [] r = "build_local:False" -> <<"Build Failed">>

DeployInit ==
  /\ dockerfile \in BOOLEAN
  /\ pc = "main"
  /\ step = 0
  /\ ret = "none"
  /\ invoked = [k \in Steps |-> 0]
  /\ events = << >>
  /\ status = [p \in Procs |-> -1]
  /\ out = << >>
  /\ exitCode = -1
  /\ failed = 0
  /\ signal = "none"

\* an exception nothing catches: the interpreter prints the traceback and
\* the process exits with code 1
Uncaught(k) ==
  /\ pc' = "exited"
  /\ exitCode' = 1
  /\ failed' = k
  /\ signal' = "raise"
  /\ ret' = ret
  /\ step' = step

\* __main__, lines 94-96: no Dockerfile in the working directory
main_guard ==
  /\ UNCHANGED cvars
  /\ pc = "main"
  /\ DockerfileGuard(dockerfile)
  /\ out' = Append(out, "Error: Run this script from the project root")
  /\ exitCode' = GuardExitCode
  /\ pc' = "exited"
  /\ UNCHANGED <<dockerfile, step, ret, invoked, events, status, failed, signal>>

\* __main__, line 98: the guard passed, build_local() is called
main_start ==
  /\ UNCHANGED cvars
  /\ pc = "main"
  /\ ~DockerfileGuard(dockerfile)
  /\ pc' = "call"
  /\ step' = 1
  /\ UNCHANGED <<dockerfile, ret, invoked, events, status, out, exitCode, failed, signal>>

\* run_command up to the start of the child process (Popen inside check_call):
\* the child is started, or Popen raises OSError, which run_command does not catch
run_command_start(k) ==
  /\ UNCHANGED cvars
  /\ pc = "call"
  /\ step = k
  /\ invoked' = [invoked EXCEPT ![k] = @ + 1]
  /\ events' = Append(events, <<"invoke", k>>)
  /\ \/ /\ pc' = "wait"
        /\ out' = out \o <<Banner(k), "--> Running">>
        /\ UNCHANGED <<step, ret, exitCode, failed, signal>>
     \/ /\ Uncaught(k)
        /\ out' = out \o <<Banner(k), "--> Running", "Traceback">>
  /\ UNCHANGED <<dockerfile, status>>

\* the exit statuses the processes of step k leave, and the return code
\* check_call sees
Outcomes(k) ==
  CASE k = 1 -> {[st |-> [status EXCEPT !["docker build"] = s], rc |-> s] : s \in ExitStatus}
    [] k = 2 -> {[st |-> [status EXCEPT !["docker save"] = s[1], !["gzip"] = s[2]],
                  rc |-> ShellStatus(s[1], s[2])] : s \in ExitStatus \X ExitStatus}
    [] k = 3 -> {[st |-> [status EXCEPT !["scp"] = s], rc |-> s] : s \in ExitStatus}
    [] k = 4 -> {[st |-> [status EXCEPT !["ssh"] = s], rc |-> s] : s \in ExitStatus}

\* run_command from the exit of the child process: check_call returns or
\* raises CalledProcessError, run_command returns True or False, and the
\* stage function continues or returns False
run_command_exit(k) ==
  /\ UNCHANGED cvars
  /\ pc = "wait"
  /\ step = k
  /\ \E o \in Outcomes(k) :
       /\ status' = o.st
       /\ events' = Append(events, <<"exit", k>>)
       /\ IF check_call_raises(o.rc)
            THEN /\ out' = Append(out, "Error running command")
                 /\ pc' = ReturnFalse(k)[1]
                 /\ step' = ReturnFalse(k)[2]
                 /\ ret' = ReturnFalse(k)[3]
                 /\ failed' = k
                 /\ signal' = "nonzero"
            ELSE /\ out' = out
                 /\ pc' = Continue(k)[1]
                 /\ step' = Continue(k)[2]
                 /\ ret' = Continue(k)[3]
                 /\ UNCHANGED <<failed, signal>>
  /\ UNCHANGED <<dockerfile, invoked, exitCode>>

\* build_local, lines 37-39: os.path.getsize(ARTIFACT_NAME) returns, or raises
\* OSError, which nothing catches
build_local_size ==
  /\ UNCHANGED cvars
  /\ pc = "size"
  /\ \/ /\ out' = Append(out, "Artifact size")
        /\ pc' = "call"
        /\ step' = 3
        /\ UNCHANGED <<ret, exitCode, failed, signal>>
     \/ /\ Uncaught(2)
        /\ out' = Append(out, "Traceback")
  /\ UNCHANGED <<dockerfile, invoked, events, status>>

\* __main__, lines 98-108: the final report; the script then runs off its end
main_report ==
  /\ UNCHANGED cvars
  /\ pc = "report"
  /\ out' = out \o FinalMessage(ret)
  /\ exitCode' = 0
  /\ pc' = "exited"
  /\ UNCHANGED <<dockerfile, step, ret, invoked, events, status, failed, signal>>

(* ======================= server/cleanup.py ======================= *)

\* variant: the connection is opened with isolation_level=None
Autocommit_on == TRUE

\* sqlite3.connect(db_path) with the default isolation level: the module
\* opens a transaction implicitly ahead of a DELETE, nothing is committed
\* until conn.commit()
Autocommit == FALSE

CleanupInit ==
  /\ cpc = "connect"
  /\ dbNotes \in SUBSET Rows
  /\ dbCollabs \in SUBSET Rows
  /\ db0 = <<dbNotes, dbCollabs>>
  /\ txNotes = dbNotes
  /\ txCollabs = dbCollabs
  /\ inTx = FALSE
  /\ deleted = <<-1, -1>>
  /\ commits = 0
  /\ committed = FALSE
  /\ cout = << >>

\* an exception raised inside the try block: control moves to the handler
Raise ==
  /\ cpc' = "except"

\* line 8-9: sqlite3.connect and conn.cursor(); connect may raise
connect ==
  /\ UNCHANGED dvars
  /\ cpc = "connect"
  /\ \/ cpc' = "delete_notes"
     \/ Raise
  /\ UNCHANGED <<dbNotes, dbCollabs, db0, txNotes, txCollabs, inTx, deleted, commits, committed, cout>>

\* lines 10-12: DELETE FROM notes, deleted_notes = c.rowcount; execute may
\* raise (no such table, database locked), leaving the table as it was
delete_notes ==
  /\ UNCHANGED dvars
  /\ cpc = "delete_notes"
  /\ cout' = Append(cout, <<"Deleting notes...">>)
  /\ \/ /\ cpc' = "delete_collabs"
        /\ txNotes' = {}
        /\ deleted' = <<Cardinality(txNotes), deleted[2]>>
        /\ IF Autocommit
             THEN dbNotes' = {} /\ inTx' = inTx
             ELSE dbNotes' = dbNotes /\ inTx' = TRUE
     \/ /\ Raise
        /\ UNCHANGED <<txNotes, deleted, dbNotes, inTx>>
  /\ UNCHANGED <<dbCollabs, db0, txCollabs, commits, committed>>

\* lines 14-16: DELETE FROM note_collaborators, deleted_collabs = c.rowcount
delete_collabs ==
  /\ UNCHANGED dvars
  /\ cpc = "delete_collabs"
  /\ cout' = Append(cout, <<"Deleting collaborators...">>)
  /\ \/ /\ cpc' = "commit"
        /\ txCollabs' = {}
        /\ deleted' = <<deleted[1], Cardinality(txCollabs)>>
        /\ IF Autocommit
             THEN dbCollabs' = {} /\ inTx' = inTx
             ELSE dbCollabs' = dbCollabs /\ inTx' = TRUE
     \/ /\ Raise
        /\ UNCHANGED <<txCollabs, deleted, dbCollabs, inTx>>
  /\ UNCHANGED <<dbNotes, db0, txNotes, commits, committed>>

\* line 18: conn.commit(); the commit makes the transaction's contents the
\* committed ones, or raises (database is locked, disk error) and commits nothing
commit ==
  /\ UNCHANGED dvars
  /\ cpc = "commit"
  /\ commits' = commits + 1
  /\ \/ /\ cpc' = "close"
        /\ dbNotes' = txNotes
        /\ dbCollabs' = txCollabs
        /\ inTx' = FALSE
        /\ committed' = TRUE
     \/ /\ Raise
        /\ UNCHANGED <<dbNotes, dbCollabs, inTx, committed>>
  /\ UNCHANGED <<db0, txNotes, txCollabs, deleted, cout>>

\* lines 19-21: conn.close() and the SUCCESS line; the script ends
close ==
  /\ UNCHANGED dvars
  /\ cpc = "close"
  /\ cout' = Append(cout, <<"SUCCESS", deleted[1], deleted[2]>>)
  /\ cpc' = "exited"
  /\ UNCHANGED <<dbNotes, dbCollabs, db0, txNotes, txCollabs, inTx, deleted, commits, committed>>

\* lines 22-23: the handler prints ERROR; the script ends without commit or
\* close, and the transaction left open is rolled back with the connection
except ==
  /\ UNCHANGED dvars
  /\ cpc = "except"
  /\ cout' = Append(cout, <<"ERROR">>)
  /\ cpc' = "exited"
  /\ inTx' = FALSE
  /\ txNotes' = dbNotes
  /\ txCollabs' = dbCollabs
  /\ UNCHANGED <<dbNotes, dbCollabs, db0, deleted, commits, committed>>

(* ======================= specifications ======================= *)

\* the script that is not run stays as it is
CleanupIdle ==
  /\ cpc = "idle"
  /\ dbNotes = {}
  /\ dbCollabs = {}
  /\ db0 = <<{}, {}>>
  /\ txNotes = {}
  /\ txCollabs = {}
  /\ inTx = FALSE
  /\ deleted = <<-1, -1>>
  /\ commits = 0
  /\ committed = FALSE
  /\ cout = << >>

DeployIdle ==
  /\ dockerfile = FALSE
  /\ pc = "idle"
  /\ step = 0
  /\ ret = "none"
  /\ invoked = [k \in Steps |-> 0]
  /\ events = << >>
  /\ status = [p \in Procs |-> -1]
  /\ out = << >>
  /\ exitCode = -1
  /\ failed = 0
  /\ signal = "none"

Init == DeployInit /\ CleanupIdle
Next ==
  \/ main_guard
  \/ main_start
  \/ \E k \in Steps : run_command_start(k)
  \/ \E k \in Steps : run_command_exit(k)
  \/ build_local_size
  \/ main_report
Spec == Init /\ [][Next]_vars

\* the interpreter always takes its next step and, by assumption, every
\* external command terminates
SpecLive == Spec /\ WF_vars(Next)

InitCleanup == CleanupInit /\ DeployIdle
NextCleanup ==
  \/ connect
  \/ delete_notes
  \/ delete_collabs
  \/ commit
  \/ close
  \/ except
SpecCleanup == InitCleanup /\ [][NextCleanup]_vars
(* ======================= properties ======================= *)

Range(q) == {q[i] : i \in DOMAIN q}

\* the return code check_call saw for the command of step k (-1: none yet)
StepRc(k) == CASE k = 1 -> status["docker build"]
               [] k = 2 -> ShellStatus(status["docker save"], status["gzip"])
               [] k = 3 -> status["scp"]
               [] k = 4 -> status["ssh"]

StepOfProc(p) == CASE p = "docker build" -> 1
                   [] p \in {"docker save", "gzip"} -> 2
                   [] p = "scp" -> 3
                   [] p = "ssh" -> 4

\* the action of step k signalled a failure: its command exited non-zero, or
\* an error was thrown while the step ran
StepFailed(k) == StepRc(k) > 0 \/ (signal = "raise" /\ failed = k)

AllStepsSucceeded == \A k \in Steps : StepRc(k) = 0

PhaseMessage(k) == CASE k \in {1, 2} -> "Build Failed"
                     [] k = 3 -> "Shipping Failed"
                     [] k = 4 -> "Remote Run Failed"

PhaseMessages == {PhaseMessage(k) : k \in Steps}
GuardMessage == "Error: Run this script from the project root"
FailureMessages == PhaseMessages \cup {GuardMessage, "Error running command"}
CompleteMessage == "Deployment to PROD Complete"

CountIn(q, x) == Cardinality({i \in DOMAIN q : q[i] = x})

ExpectedEvents == << <<"invoke", 1>>, <<"exit", 1>>, <<"invoke", 2>>, <<"exit", 2>>,
                     <<"invoke", 3>>, <<"exit", 3>>, <<"invoke", 4>>, <<"exit", 4>> >>

\* C1: fail-fast. For every k, once step k has failed (the command that
\* run_command launched for it - the shell, for step 2 - exited non-zero, or
\* an error was thrown while the step ran), none of the steps k+1..4 is ever
\* invoked in that run.
C1_FailFast ==
  \A k \in Steps : StepFailed(k) => \A j \in Steps : j > k => invoked[j] = 0

C1_Witness ==
  /\ pc = "exited"
  /\ StepRc(2) > 0
  /\ invoked[2] = 1
  /\ invoked[3] = 0

\* C2: when every step succeeds, the four commands have been invoked exactly
\* once each, in declared order, each after the exit of the previous one, and
\* the run ends with the 'Deployment to PROD Complete' report.
C2_AllSucceed ==
  AllStepsSucceeded =>
    /\ events = ExpectedEvents
    /\ invoked = [k \in Steps |-> 1]
    /\ pc \in {"report", "exited"}
    /\ pc = "exited" => /\ CompleteMessage \in Range(out)
                         /\ Range(out) \cap FailureMessages = {}
                         /\ "Traceback" \notin Range(out)

C2_Witness ==
  /\ pc = "exited"
  /\ AllStepsSucceeded
  /\ CompleteMessage \in Range(out)

\* C3 (as claimed): whichever way a stage signals failure - non-zero exit,
\* thrown error, False return - the runner stops, records which stage failed
\* (the stage function's False reaches __main__) and reports the failure of
\* that stage.
C3_AnySignalReported ==
  \A k \in Steps : StepFailed(k) =>
    /\ pc \in {"report", "exited"}
    /\ \A j \in Steps : j > k => invoked[j] = 0
    /\ ret = StageOf(k) \o ":False"
    /\ pc = "exited" => PhaseMessage(k) \in Range(out)

\* C4 (as claimed): a non-zero exit of any external process a stage runs,
\* the `docker save` on the left of the pipe included, makes run_command
\* return False: the stage is reported failed and a failure in steps 1-2
\* keeps the transfer from being executed.
C4_AnyProcessExitFails ==
  \A p \in Procs : status[p] > 0 =>
    /\ ret = StageOf(StepOfProc(p)) \o ":False"
    /\ StepOfProc(p) <= 2 => invoked[3] = 0
    /\ pc = "exited" => PhaseMessage(StepOfProc(p)) \in Range(out)

\* C5: the process exits with code 0 on full pipeline success; a run that
\* is not a full success ends with a non-zero exit code or with a failure
\* message printed.
C5_ExitCode ==
  pc = "exited" =>
    /\ AllStepsSucceeded => exitCode = 0
    /\ ~AllStepsSucceeded => (exitCode # 0 \/ Range(out) \cap FailureMessages # {})

C5_Witness ==
  /\ pc = "exited"
  /\ ~AllStepsSucceeded
  /\ exitCode = 0
  /\ "Shipping Failed" \in Range(out)

\* C6 (as claimed): whenever a stage fails, the failure is caught at the
\* stage boundary (nothing propagates uncaught), exactly one final message
\* naming the failed phase is printed, it is the last thing the process does,
\* and no command runs after the one that failed.
C6_CaughtAndNamed ==
  \A k \in Steps : (pc = "exited" /\ StepFailed(k)) =>
    /\ "Traceback" \notin Range(out)
    /\ CountIn(out, PhaseMessage(k)) = 1
    /\ \A m \in PhaseMessages \ {PhaseMessage(k)} : m \notin Range(out)
    /\ out[Len(out)] = PhaseMessage(k)
    /\ events[Len(events)] = <<"exit", k>>

\* state of the run, read off the process
Succeeded == pc = "exited" /\ CompleteMessage \in Range(out)
Failed == /\ pc = "exited"
          /\ exitCode # 0 \/ Range(out) \cap (PhaseMessages \cup {GuardMessage}) # {}
Running(i) == pc \in {"call", "wait", "size", "report"} /\ step = i
NotStarted == pc = "main"

\* C7: with every external command terminating, every run eventually reaches
\* a terminal state, Failed or Succeeded and never both; a terminal state is
\* kept for good with no further command invoked; and from Running(i) the run
\* stays in Running(i) or moves to Running(i+1), Failed or (from the last
\* stage) Succeeded.
C7_StateMachine ==
  /\ <>(Failed \/ Succeeded)
  /\ [](~(Failed /\ Succeeded))
  /\ [][/\ Succeeded => (Succeeded' /\ invoked' = invoked /\ events' = events)
        /\ Failed => (Failed' /\ invoked' = invoked /\ events' = events)
        /\ \A i \in Steps : Running(i) =>
             \/ Running(i)'
             \/ i < 4 /\ Running(i + 1)'
             \/ Failed'
             \/ i = 4 /\ Succeeded']_vars

C7_Witness ==
  /\ Failed
  /\ ~Succeeded
  /\ invoked[3] = 1
  /\ invoked[4] = 0

\* C8: no retries. In every run each of the four commands is executed at
\* most once, whatever the outcomes; a command that failed is not run again.
C8_NoRetry ==
  \A k \in Steps : invoked[k] <= 1 /\ CountIn(events, <<"invoke", k>>) <= 1

C8_Witness ==
  /\ pc = "exited"
  /\ StepRc(3) > 0
  /\ invoked[3] = 1

\* C9: without a Dockerfile in the working directory the process prints the
\* error, exits with code 1 before any stage starts, and no external command
\* is ever executed.
C9_Guard ==
  ~dockerfile =>
    /\ pc \in {"main", "exited"}
    /\ \A k \in Steps : invoked[k] = 0
    /\ events = << >>
    /\ \A p \in Procs : status[p] = -1
    /\ pc = "exited" => exitCode = 1 /\ out = <<GuardMessage>>

C9_Witness ==
  /\ ~dockerfile
  /\ pc = "exited"
  /\ exitCode = 1

Printed(tag) == \E i \in DOMAIN cout : cout[i][1] = tag

\* C10 (as claimed): commit only after both DELETEs executed without error;
\* in every run either both tables end up empty and SUCCESS is printed, or
\* ERROR is printed, no commit is issued and the committed contents of both
\* tables are unchanged.
C10_NoCommitIssued ==
  /\ commits > 0 => (deleted[1] >= 0 /\ deleted[2] >= 0)
  /\ cpc = "exited" =>
       \/ dbNotes = {} /\ dbCollabs = {} /\ Printed("SUCCESS")
       \/ Printed("ERROR") /\ commits = 0 /\ <<dbNotes, dbCollabs>> = db0

\* C10 (amended): commit only after both DELETEs executed without error;
\* the committed contents are at all times those of the start or both tables
\* empty; in every run either a commit took effect, both tables end up empty
\* and SUCCESS (not ERROR) is printed, or ERROR (not SUCCESS) is printed, no
\* commit has taken effect - none was issued or the commit itself raised -
\* and the committed contents of both tables are unchanged.
C10_Atomic ==
  /\ commits > 0 => (deleted[1] >= 0 /\ deleted[2] >= 0)
  /\ <<dbNotes, dbCollabs>> \in {db0, <<{}, {}>>}
  /\ cpc = "exited" =>
       \/ /\ committed
          /\ dbNotes = {} /\ dbCollabs = {}
          /\ Printed("SUCCESS") /\ ~Printed("ERROR")
       \/ /\ ~committed
          /\ ~inTx
          /\ Printed("ERROR") /\ ~Printed("SUCCESS")
          /\ <<dbNotes, dbCollabs>> = db0

C10_Witness ==
  /\ cpc = "exited"
  /\ Printed("ERROR")
  /\ commits = 1
  /\ db0[1] # {} /\ db0[2] # {}
  /\ <<dbNotes, dbCollabs>> = db0
====
